---- MODULE Spec2Model ----
(***************************************************************************)
(* Model of the LyricSheets API (api-python): the line suggestion service  *)
(* of Services/llm.py (hint assembly, prompt inputs, model invocation,     *)
(* output sanitization) and the stub /suggest handler of main.py.          *)
(*                                                                         *)
(* A Python str the code inspects character by character (model output,   *)
(* userLyrics of /suggest) is a sequence of characters, a character being  *)
(* a one-element TLA+ string.  Two characters that cannot be written in a  *)
(* TLA+ string literal are named: Backtick (U+0060) and EmDash (U+2014).   *)
(* A Python str the code only tests for truth, formats or concatenates     *)
(* (the payload fields, the hints) is a TLA+ string.                       *)
(***************************************************************************)
EXTENDS Integers, Sequences, FiniteSets, TLC

VARIABLES
    pc,         \* position of the operation under way
    text,       \* _postprocess_single_line: its argument
    line,       \* _postprocess_single_line: its outcome
    again,      \* _postprocess_single_line applied to its own result
    payload,    \* inspire_one_line / _hints_from_payload: the payload dict
    hints,      \* _hints_from_payload: its result
    inputs,     \* inspire_one_line: the dict handed to the prompt
    raw,        \* inspire_one_line: what _CHAIN.invoke returned
    calls,      \* inspire_one_line: outbound model calls made so far
    outcome,    \* inspire_one_line: returned value or raised exception
    req,        \* /suggest: the SuggestRequest
    resp        \* /suggest: the SuggestResponse

vars == <<pc, text, line, again, payload, hints, inputs, raw, calls, outcome, req, resp>>

-----------------------------------------------------------------------------
(* Characters *)

Backtick == "backtick"
EmDash == "emdash"

\* str.isspace(): what re's \s matches and what str.strip() removes (of
\* Python's whitespace: the space, the tab, and three that are line breaks)
Whitespace == {" ", "\t", "\n", "\r", "\f"}

\* the line boundaries of str.splitlines() (all of them are whitespace)
LineBreaks == {"\n", "\r", "\f"}

\* the argument of line.strip("\"'` ")
StripChars == {"\"", "'", Backtick, " "}

\* the hard cap of _postprocess_single_line
HardCap == 180

-----------------------------------------------------------------------------
(* Bounds of the model *)

\* longest free-form run of characters at either end of a generated text
MaxEdge == 2

\* the characters the generated texts are made of
Alphabet == {"a", " ", "\t", "\n", "'"}

RECURSIVE Strs(_)
Strs(n) ==
    IF n = 0 THEN {<<>>}
    ELSE LET shorter == Strs(n - 1)
         IN shorter \cup {Append(s, c) : s \in {t \in shorter : Len(t) = n - 1}, c \in Alphabet}

Pad(n) == [i \in 1..n |-> "a"]

\* texts: a free head, a body of letters (none, or long enough to bring the
\* line to the hard cap), a free tail
RawTexts ==
    {h \o Pad(n) \o t : h \in Strs(MaxEdge), t \in Strs(MaxEdge),
                        n \in {0, HardCap - 2, HardCap - 1}}

-----------------------------------------------------------------------------
(* Python str operations *)

\* index of the first character of s that is in chars, or Len(s) + 1
FirstIn(s, chars) ==
    CHOOSE i \in 1..(Len(s) + 1) :
        /\ i = Len(s) + 1 \/ s[i] \in chars
        /\ \A j \in 1..(i - 1) : s[j] \notin chars

\* str.splitlines(): the lines without their boundaries; "\r\n" is one
\* boundary; the empty string has no lines; a final boundary opens no line
RECURSIVE splitlines(_)
splitlines(s) ==
    IF s = <<>> THEN <<>>
    ELSE LET i == FirstIn(s, LineBreaks)
         IN IF i > Len(s) THEN <<s>>
            ELSE LET j == IF s[i] = "\r" /\ i < Len(s) /\ s[i + 1] = "\n"
                          THEN i + 1 ELSE i
                 IN <<SubSeq(s, 1, i - 1)>> \o splitlines(SubSeq(s, j + 1, Len(s)))

\* re.sub(r"\s+", " ", s) on s[lo..hi]: every maximal run of whitespace
\* becomes one space (its first character is replaced, the others dropped)
RECURSIVE ReSubWs(_, _, _)
ReSubWs(s, lo, hi) ==
    IF lo > hi THEN <<>>
    ELSE IF lo = hi
         THEN IF s[lo] \notin Whitespace THEN <<s[lo]>>
              ELSE IF lo > 1 /\ s[lo - 1] \in Whitespace THEN <<>>
              ELSE <<" ">>
    ELSE LET mid == (lo + hi) \div 2
         IN ReSubWs(s, lo, mid) \o ReSubWs(s, mid + 1, hi)

re_sub_ws(s) == ReSubWs(s, 1, Len(s))

\* first index whose character is not in chars, or Len(s) + 1
LStripIdx(s, chars) ==
    CHOOSE i \in 1..(Len(s) + 1) :
        /\ i = Len(s) + 1 \/ s[i] \notin chars
        /\ \A j \in 1..(i - 1) : s[j] \in chars

\* last index whose character is not in chars, or 0
RStripIdx(s, chars) ==
    CHOOSE i \in 0..Len(s) :
        /\ i = 0 \/ s[i] \notin chars
        /\ \A j \in (i + 1)..Len(s) : s[j] \in chars

\* str.strip(chars): drop the characters of chars from both ends
strip(s, chars) ==
    SubSeq(s, LStripIdx(s, chars), RStripIdx(s, chars))

\* the slice s[:n]
Slice(s, n) == SubSeq(s, 1, IF Len(s) < n THEN Len(s) ELSE n)

-----------------------------------------------------------------------------
(* Services/llm.py: _postprocess_single_line *)

Returned(v) == [exc |-> "none", val |-> v]
Raised(e) == [exc |-> e, val |-> <<>>]
Nothing == [exc |-> "pending", val |-> <<>>]

\* line = text.splitlines()[0]
FirstLine(t) == splitlines(t)[1]

\* line = re.sub(r"\s+", " ", line).strip(); line = line.strip("\"'` ")
CleanLine(l) == strip(strip(re_sub_ws(l), Whitespace), StripChars)

\* a cap that lets one character too many through
CapLineOffByOne(l) == Slice(l, HardCap + 1)

\* return line[:180]
CapLine(l) == Slice(l, HardCap)

postprocess_single_line(t) ==
    IF splitlines(t) = <<>> THEN Raised("IndexError")
    ELSE Returned(CapLine(CleanLine(FirstLine(t))))

-----------------------------------------------------------------------------
(* The sanitizer applied to generated texts, and to its own result *)

Idle == "idle"

InitPost ==
    /\ pc = "post_start"
    /\ text \in RawTexts
    /\ line = Nothing
    /\ again = Nothing
    /\ payload = Idle
    /\ hints = Idle
    /\ inputs = Idle
    /\ raw = Idle
    /\ calls = 0
    /\ outcome = Nothing
    /\ req = Idle
    /\ resp = Idle

Postprocess ==
    /\ pc = "post_start"
    /\ line' = postprocess_single_line(text)
    /\ pc' = "post_done"
    /\ UNCHANGED <<text, again, payload, hints, inputs, raw, calls, outcome, req, resp>>

PostprocessAgain ==
    /\ pc = "post_done"
    /\ line.exc = "none"
    /\ again' = postprocess_single_line(line.val)
    /\ pc' = "post_twice"
    /\ UNCHANGED <<text, line, payload, hints, inputs, raw, calls, outcome, req, resp>>

NextPost == Postprocess \/ PostprocessAgain

SpecPost == InitPost /\ [][NextPost]_vars

-----------------------------------------------------------------------------
(* Properties of the sanitizer *)

QuoteOrSpace == {"\"", "'", Backtick} \cup Whitespace

HasLineBreak(s) == \E i \in 1..Len(s) : s[i] \in LineBreaks

\* C1: for every non-empty raw output the returned line neither begins nor
\* ends with a double quote, a single quote, a backtick or a whitespace
\* character, also when the 180-character truncation cuts the line.
C1_NoQuoteOrSpaceAtEnds ==
    (pc = "post_done" /\ text # <<>>) =>
        /\ line.exc = "none"
        /\ \/ line.val = <<>>
           \/ /\ line.val[1] \notin QuoteOrSpace
              /\ line.val[Len(line.val)] \notin QuoteOrSpace

\* C2: sanitizing is idempotent: for every non-empty raw text whose
\* sanitized form is non-empty, sanitizing that form again returns it
\* unchanged, also for inputs longer than 180 characters.
C2_Idempotent ==
    (pc = "post_twice" /\ text # <<>> /\ line.val # <<>>) => again = line

\* C5: for every non-empty raw output that contains line breaks, the result
\* contains no line-break character and equals the sanitized form of the
\* first line of the raw output alone.
C5_EqualsSanitizedFirstLine ==
    (pc = "post_done" /\ text # <<>> /\ HasLineBreak(text)) =>
        /\ line.exc = "none"
        /\ ~HasLineBreak(line.val)
        /\ line = postprocess_single_line(FirstLine(text))

-----------------------------------------------------------------------------
(* Services/llm.py: the payload dict and _hints_from_payload *)

\* a value of the payload dict: the key is missing, or holds None, or a str
Missing == [tag |-> "missing", s |-> ""]
None == [tag |-> "None", s |-> ""]
Str(x) == [tag |-> "str", s |-> x]

TextFields == {"userLyrics", "contextFocus", "contextFull"}
HintFields == {"style", "mood", "scheme", "syllables", "sectionKind"}
Fields == TextFields \cup HintFields

\* p.get(k): None when the key is missing
Get(p, k) == IF p[k] = Missing THEN None ELSE p[k]

\* p.get(k, d): d when the key is missing
GetDefault(p, k, d) == IF p[k] = Missing THEN d ELSE p[k]

\* truth value of a str or None
Truthy(v) == v.tag = "str" /\ v.s # ""

\* v or d
Or(v, d) == IF Truthy(v) THEN v ELSE d

\* sep.join(parts)
RECURSIVE Join(_, _)
Join(parts, sep) ==
    IF parts = <<>> THEN ""
    ELSE IF Len(parts) = 1 THEN parts[1]
    ELSE parts[1] \o sep \o Join(Tail(parts), sep)

\* if p.get(k): parts.append(f"{label}: {p[k]}")
AppendHint(parts, p, k, label) ==
    IF Truthy(Get(p, k)) THEN Append(parts, label \o ": " \o p[k].s) ELSE parts

\* the parts list after the five appends
HintParts(p) ==
    LET p1 == AppendHint(<<>>, p, "style", "Style")
        p2 == AppendHint(p1, p, "mood", "Mood")
        p3 == AppendHint(p2, p, "scheme", "Rhyme scheme")
        p4 == AppendHint(p3, p, "syllables", "Target syllables")
    IN AppendHint(p4, p, "sectionKind", "Section")

\* the conditional binding tighter than the concatenation:
\* "HINTS:\n" + (" | ".join(parts) if parts else "")
HintsBareHeader(p) == "HINTS:\n" \o Join(HintParts(p), " | ")

\* return "HINTS:\n" + " | ".join(parts) if parts else ""
hints_from_payload(p) ==
    IF HintParts(p) # <<>> THEN "HINTS:\n" \o Join(HintParts(p), " | ") ELSE ""

\* the hint values tried: missing, None, the empty string, two strings
HintValues == {Missing, None, Str(""), Str("blues"), Str("8-10")}

HintPayloads ==
    {[f \in Fields |-> IF f \in HintFields THEN h[f] ELSE Missing] :
        h \in [HintFields -> HintValues]}

InitHints ==
    /\ pc = "hints_start"
    /\ payload \in HintPayloads
    /\ hints = Idle
    /\ text = Idle
    /\ line = Nothing
    /\ again = Nothing
    /\ inputs = Idle
    /\ raw = Idle
    /\ calls = 0
    /\ outcome = Nothing
    /\ req = Idle
    /\ resp = Idle

HintsFromPayload ==
    /\ pc = "hints_start"
    /\ hints' = hints_from_payload(payload)
    /\ pc' = "hints_done"
    /\ UNCHANGED <<text, line, again, payload, inputs, raw, calls, outcome, req, resp>>

NextHints == HintsFromPayload

SpecHints == InitHints /\ [][NextHints]_vars

-----------------------------------------------------------------------------
(* Properties of the hint assembly *)

HintOrder == <<"style", "mood", "scheme", "syllables", "sectionKind">>

HintLabel ==
    [style |-> "Style", mood |-> "Mood", scheme |-> "Rhyme scheme",
     syllables |-> "Target syllables", sectionKind |-> "Section"]

\* a hint is present unless it is missing, null or the empty string
Present(p, f) == p[f] \notin {Missing, None, Str("")}

\* the annotation of the hints of HintOrder[i..5], given whether one came before
RECURSIVE ExpectedFrom(_, _, _)
ExpectedFrom(p, i, first) ==
    IF i > Len(HintOrder) THEN ""
    ELSE LET f == HintOrder[i]
         IN IF Present(p, f)
            THEN (IF first THEN "HINTS:\n" ELSE " | ")
                     \o HintLabel[f] \o ": " \o p[f].s \o ExpectedFrom(p, i + 1, FALSE)
            ELSE ExpectedFrom(p, i + 1, first)

\* C4: for each combination of present and absent hints the annotation is
\* the empty string when none is present, and otherwise "HINTS:\n" followed
\* by exactly the present hints as "<Label>: <value>", in the order style,
\* mood, scheme, syllables, sectionKind, joined by " | "; never a bare header.
C4_HintsAnnotation ==
    pc = "hints_done" =>
        /\ hints = ExpectedFrom(payload, 1, TRUE)
        /\ (\A f \in HintFields : ~Present(payload, f)) <=> hints = ""
        /\ hints # "HINTS:\n"

\* C4 witness: style and syllables present, mood null, scheme empty,
\* sectionKind missing
C4_Witness ==
    /\ pc = "hints_done"
    /\ payload["style"] = Str("blues")
    /\ payload["mood"] = None
    /\ payload["scheme"] = Str("")
    /\ payload["syllables"] = Str("8-10")
    /\ payload["sectionKind"] = Missing
    /\ hints = "HINTS:\nStyle: blues | Target syllables: 8-10"

-----------------------------------------------------------------------------
(* Services/llm.py: inspire_one_line *)

\* what a model call produced: text, or a transport/provider error
NoResponse == [st |-> "none", val |-> <<>>]
TextResponse(t) == [st |-> "text", val |-> t]
ErrorResponse == [st |-> "error", val |-> <<>>]

NoResponseError == "Exception: No response from LLM"
TransportError == "TransportError"

\* the texts the model may answer with (the empty string among them)
ModelOutputs == Strs(MaxEdge)

\* payloads: every text field missing, None, empty or a string; the hints
\* all missing or a style alone
InspirePayloads ==
    {[f \in Fields |-> IF f \in TextFields THEN t[f]
                       ELSE IF f = "style" THEN h ELSE Missing] :
        t \in [TextFields -> {Missing, None, Str(""), Str("I walked alone")}],
        h \in {Missing, Str("blues")}}

\* inputs = {"userLyrics": payload.get("userLyrics", "") or "",
\*           "contextFocus": payload.get("contextFocus", "") or "",
\*           "contextFull": payload.get("contextFull", ""),
\*           "hints": _hints_from_payload(payload)}
PromptInputs(p) ==
    [userLyrics |-> Or(GetDefault(p, "userLyrics", Str("")), Str("")),
     contextFocus |-> Or(GetDefault(p, "contextFocus", Str("")), Str("")),
     contextFull |-> GetDefault(p, "contextFull", Str("")),
     hints |-> Str(hints_from_payload(p))]

InitInspire ==
    /\ pc = "inspire_start"
    /\ payload \in InspirePayloads
    /\ inputs = Idle
    /\ raw = NoResponse
    /\ calls = 0
    /\ outcome = Nothing
    /\ hints = Idle
    /\ text = Idle
    /\ line = Nothing
    /\ again = Nothing
    /\ req = Idle
    /\ resp = Idle

\* lines 80-85: the inputs dict is built
BuildInputs ==
    /\ pc = "inspire_start"
    /\ inputs' = PromptInputs(payload)
    /\ pc' = "inspire_invoke"
    /\ UNCHANGED <<text, line, again, payload, hints, raw, calls, outcome, req, resp>>

\* line 86: raw = _CHAIN.invoke(inputs) returns a str
InvokeChainReturns ==
    /\ pc = "inspire_invoke"
    /\ \E t \in ModelOutputs : raw' = TextResponse(t)
    /\ calls' = calls + 1
    /\ pc' = "inspire_check"
    /\ UNCHANGED <<text, line, again, payload, hints, inputs, outcome, req, resp>>

\* line 86: _CHAIN.invoke(inputs) raises; the exception leaves inspire_one_line
InvokeChainFails ==
    /\ pc = "inspire_invoke"
    /\ raw' = ErrorResponse
    /\ calls' = calls + 1
    /\ outcome' = Raised(TransportError)
    /\ pc' = "inspire_done"
    /\ UNCHANGED <<text, line, again, payload, hints, inputs, req, resp>>

\* a second call whose answer is sanitized and returned
DiagnosticCallAsRetry ==
    /\ pc = "inspire_check"
    /\ raw.val = <<>>
    /\ calls' = calls + 1
    /\ \E t \in ModelOutputs \ {<<>>} : outcome' = postprocess_single_line(t)
    /\ pc' = "inspire_done"
    /\ UNCHANGED <<text, line, again, payload, hints, inputs, raw, req, resp>>

\* lines 88-92: raw == "": the diagnostic call returns, its response is
\* printed, and the Exception is raised
DiagnosticCallReturns ==
    /\ pc = "inspire_check"
    /\ raw.val = <<>>
    /\ calls' = calls + 1
    /\ outcome' = Raised(NoResponseError)
    /\ pc' = "inspire_done"
    /\ UNCHANGED <<text, line, again, payload, hints, inputs, raw, req, resp>>

\* lines 88-89: raw == "": the diagnostic call itself raises, and its
\* exception leaves inspire_one_line before line 92 is reached
DiagnosticCallFails ==
    /\ pc = "inspire_check"
    /\ raw.val = <<>>
    /\ calls' = calls + 1
    /\ outcome' = Raised(TransportError)
    /\ pc' = "inspire_done"
    /\ UNCHANGED <<text, line, again, payload, hints, inputs, raw, req, resp>>

\* lines 94-95: text = getattr(raw, "content", raw) or "" is raw itself (a
\* non-empty str has no content attribute and is truthy); the sanitized
\* line is returned
ReturnLine ==
    /\ pc = "inspire_check"
    /\ raw.val # <<>>
    /\ outcome' = postprocess_single_line(raw.val)
    /\ pc' = "inspire_done"
    /\ UNCHANGED <<text, line, again, payload, hints, inputs, raw, calls, req, resp>>

NextInspire ==
    \/ BuildInputs
    \/ InvokeChainReturns
    \/ InvokeChainFails
    \/ DiagnosticCallReturns
    \/ DiagnosticCallFails
    \/ ReturnLine

SpecInspire == InitInspire /\ [][NextInspire]_vars

-----------------------------------------------------------------------------
(* Properties of inspire_one_line *)

\* C3: an empty raw output ends in an explicit error with no result, and for
\* no raw output at all is an empty line returned.
C3_NeverReturnsEmptyLine ==
    pc = "inspire_done" =>
        /\ (raw.st = "text" /\ raw.val = <<>>) => outcome.exc # "none"
        /\ outcome.exc = "none" => outcome.val # <<>>

\* C7: one outbound call when the first call returns non-empty text or
\* fails, at most two otherwise; a second call only after an empty first
\* answer, and never to obtain a result: a failed or empty first response
\* always ends in failure.
C7_CallCount ==
    /\ calls <= 2
    /\ calls = 2 => (raw.st = "text" /\ raw.val = <<>>)
    /\ pc = "inspire_done" =>
        /\ calls >= 1
        /\ (raw.st = "text" /\ raw.val # <<>>) => calls = 1
        /\ raw.st = "error" => (calls = 1 /\ outcome.exc # "none")
        /\ (raw.st = "text" /\ raw.val = <<>>) => outcome.exc # "none"

\* C7 witness: the first answer was empty, the diagnostic call was made, and
\* the operation ended in the empty-completion error after two calls
C7_Witness ==
    /\ pc = "inspire_done"
    /\ raw = TextResponse(<<>>)
    /\ calls = 2
    /\ outcome = Raised(NoResponseError)

\* C8: whatever the diagnostic call does (return or fail), after an empty
\* first response the operation ends with the same empty-completion error.
C8_DiagnosticCallHasNoEffect ==
    (pc = "inspire_done" /\ raw.st = "text" /\ raw.val = <<>>) =>
        outcome = Raised(NoResponseError)

\* C9: each of the three text inputs handed to the prompt is a string; a
\* missing or null field is replaced by the empty string, for all three.
C9_TextInputsAreStrings ==
    pc \in {"inspire_invoke", "inspire_check", "inspire_done"} =>
        \A f \in TextFields :
            /\ inputs[f].tag = "str"
            /\ payload[f] \in {Missing, None} => inputs[f] = Str("")

-----------------------------------------------------------------------------
(* main.py: the /suggest handler *)

\* the cut of the suggestion in suggest()
SuggestCap == 280

\* " — and the streetlights shake the snow from their sleeves"
SuggestSuffix ==
    <<
      " ", EmDash, " ", "a", "n", "d", " ", "t", "h", "e", " ", "s",
      "t", "r", "e", "e", "t", "l", "i", "g", "h", "t", "s", " ",
      "s", "h", "a", "k", "e", " ", "t", "h", "e", " ", "s", "n",
      "o", "w", " ", "f", "r", "o", "m", " ", "t", "h", "e", "i",
      "r", " ", "s", "l", "e", "e", "v", "e", "s"
    >>

\* userLyrics: a free head, a body of letters (none, or long enough to bring
\* the suggestion to its cut), a free tail
LyricsTexts ==
    {h \o Pad(n) \o t : h \in Strs(MaxEdge), t \in Strs(MaxEdge),
                        n \in {0, SuggestCap - Len(SuggestSuffix) - 1}}

\* the seed taken as it came
SeedUnstripped(r) == r.userLyrics

\* seed = req.userLyrics.strip()
Seed(r) == strip(r.userLyrics, Whitespace)

\* fake_line = f"{seed} — and the streetlights shake the snow from their sleeves"
FakeLine(r) == Seed(r) \o SuggestSuffix

\* SuggestResponse(suggestion=fake_line.splitlines()[0][:280], usedVoiceIds=[],
\*     usedReferenceIds=[], tokens={"prompt": 0, "completion": 0, "total": 0},
\*     latencyMs=latency)
SuggestResponse(r, latency) ==
    IF splitlines(FakeLine(r)) = <<>> THEN [exc |-> "IndexError", body |-> <<>>]
    ELSE [exc |-> "none",
          body |-> [suggestion |-> Slice(splitlines(FakeLine(r))[1], SuggestCap),
                    usedVoiceIds |-> <<>>,
                    usedReferenceIds |-> <<>>,
                    tokens |-> [prompt |-> 0, completion |-> 0, total |-> 0],
                    latencyMs |-> latency]]

InitSuggest ==
    /\ pc = "suggest_start"
    /\ req \in [userLyrics : LyricsTexts]
    /\ resp = Idle
    /\ payload = Idle
    /\ hints = Idle
    /\ inputs = Idle
    /\ raw = Idle
    /\ calls = 0
    /\ outcome = Nothing
    /\ text = Idle
    /\ line = Nothing
    /\ again = Nothing

\* latency = int((time.time() - t0) * 1000): whole milliseconds elapsed
Suggest ==
    /\ pc = "suggest_start"
    /\ \E latency \in 0..1 : resp' = SuggestResponse(req, latency)
    /\ pc' = "suggest_done"
    /\ UNCHANGED <<text, line, again, payload, hints, inputs, raw, calls, outcome, req>>

NextSuggest == Suggest

SpecSuggest == InitSuggest /\ [][NextSuggest]_vars

-----------------------------------------------------------------------------
(* Properties of the /suggest handler *)

\* C10: for every userLyrics the handler completes without raising and
\* returns a suggestion that is non-empty, has no line-break character and
\* at most 280 characters, with empty usedVoiceIds and usedReferenceIds and
\* all token counts zero.
C10_SuggestStub ==
    pc = "suggest_done" =>
        /\ resp.exc = "none"
        /\ resp.body.suggestion # <<>>
        /\ ~HasLineBreak(resp.body.suggestion)
        /\ Len(resp.body.suggestion) <= 280
        /\ resp.body.usedVoiceIds = <<>>
        /\ resp.body.usedReferenceIds = <<>>
        /\ resp.body.tokens = [prompt |-> 0, completion |-> 0, total |-> 0]

\* C10 witness: userLyrics that begin with a line break and are long enough
\* for the suggestion to be cut at 280 characters
C10_Witness ==
    /\ pc = "suggest_done"
    /\ req.userLyrics # <<>>
    /\ req.userLyrics[1] = "\n"
    /\ Len(req.userLyrics) + Len(SuggestSuffix) > 280
    /\ Len(resp.body.suggestion) = 280

====
